---------------------------- MODULE Spec2Model ----------------------------
(***************************************************************************)
(* A model of src/src/hash.rs (bao tree hash): the tree-shape rule, the    *)
(* recursive hashers (serial and fork-join), the incremental subtree       *)
(* merger `State`, the streaming `Writer` and the parallel `RayonWriter`.  *)
(*                                                                         *)
(* BLAKE2b is idealised as a collision-free function: a digest is the      *)
(* final compression state itself (everything that was fed to it, in       *)
(* order, and the last-node flag).  Two digests are equal exactly when     *)
(* the same updates were made with the same flag.                          *)
(*                                                                         *)
(* Input bytes are pairwise distinct (the i-th byte of every input has the *)
(* value i), the most discriminating input for an algorithm that never     *)
(* looks at byte values.                                                   *)
(***************************************************************************)
EXTENDS Integers, Sequences, FiniteSets

(***************************************************************************)
(* Constants of the source.                                                *)
(***************************************************************************)
\* hash.rs:15 sets CHUNK_SIZE to 4096.  The model scales the chunk down so
\* that every byte position inside and across chunks can be enumerated; all
\* definitions below are parametric in it.
CHUNK_SIZE == 2
HEADER_SIZE == 8
MAX_DEPTH == 64
MAX_SINGLE_THREADED == 4 * CHUNK_SIZE

(***************************************************************************)
(* Bounds of the model.                                                    *)
(***************************************************************************)
\* Longest input, in chunks.
MaxChunks == 8
MaxLen == MaxChunks * CHUNK_SIZE
\* Most write calls made on a writer.
MaxWrites == 4
\* Longest slice passed to a write call: two chunks and a byte.
MaxWrite == 2 * CHUNK_SIZE + 1
\* Largest job size, in chunks, and largest max_jobs of a RayonWriter.
MaxJobChunks == 4
MaxJobs == 3
\* Longest input of a RayonWriter with these parameters: enough for it to
\* go through await_half twice and end on a short job.
RayonMaxLen(size, jobs) == (2 * jobs + 1) * size + 1
MaxRayonLen == RayonMaxLen(MaxJobChunks * CHUNK_SIZE, MaxJobs)

Min(a, b) == IF a < b THEN a ELSE b

\* The bytes of the input at offsets lo .. hi-1 (0-based, as a Rust slice
\* input[lo..hi]); the byte at offset i has value i + 1.
Bytes(lo, hi) == [i \in 1..(hi - lo) |-> lo + i]

(***************************************************************************)
(* Primitives: hash.rs:22-75                                               *)
(***************************************************************************)
NotRoot == [root |-> FALSE, len |-> 0]
Root(root_len) == [root |-> TRUE, len |-> root_len]

\* One byte of a little-endian encoding: byte i (1-based) of n.
RECURSIVE le_byte(_, _)
le_byte(n, i) == IF i = 1 THEN n % 256 ELSE le_byte(n \div 256, i - 1)

encode_len(len) == [i \in 1..HEADER_SIZE |-> le_byte(len, i)]

\* What a BLAKE2b state absorbs: raw bytes and 32-byte hashes.  Both are
\* kept in one ordered stream; a stream item is a byte or a hash.
ByteItem(b) == [byte |-> b, hash |-> <<>>]
HashItem(h) == [byte |-> 0, hash |-> <<h>>]

new_blake2b_state == [absorbed |-> <<>>, last_node |-> FALSE]

update(st, bytes) ==
    [st EXCEPT !.absorbed = @ \o [i \in 1..Len(bytes) |-> ByteItem(bytes[i])]]

update_hash(st, h) == [st EXCEPT !.absorbed = Append(@, HashItem(h))]

set_last_node(st, flag) == [st EXCEPT !.last_node = flag]

\* The digest of the idealised compression function is the state it
\* finalises.
finalize(st) == st

\* finalize_hash takes the state by &mut: for a root it is left with the
\* length suffix absorbed and the last-node flag set.
finalize_hash_state(st, finalization) ==
    IF finalization.root
    THEN set_last_node(update(st, encode_len(finalization.len)), TRUE)
    ELSE st

finalize_hash(st, finalization) == finalize(finalize_hash_state(st, finalization))

hash_node(chunk, finalization) ==
    finalize_hash(update(new_blake2b_state, chunk), finalization)

parent_hash(left_hash, right_hash, finalization) ==
    finalize_hash(update_hash(update_hash(new_blake2b_state, left_hash), right_hash),
                  finalization)

(***************************************************************************)
(* Tree-shape rule: hash.rs:79-91                                          *)
(***************************************************************************)
\* Number of significant bits of n (0 for n = 0).
RECURSIVE bit_length(_)
bit_length(n) == IF n = 0 THEN 0 ELSE 1 + bit_length(n \div 2)

\* u64::leading_zeros
leading_zeros(n) == 64 - bit_length(n)

RECURSIVE shl1(_)
\* 1 << k
shl1(k) == IF k = 0 THEN 1 ELSE 2 * shl1(k - 1)

\* Faulty variant: no rounding down, n itself is returned.
largest_power_of_two_identity(n) == n

largest_power_of_two(n) == shl1(63 - leading_zeros(n))

left_len(content_len) ==
    LET full_chunks == (content_len - 1) \div CHUNK_SIZE
    IN  largest_power_of_two(full_chunks) * CHUNK_SIZE

(***************************************************************************)
(* Recursive hasher: hash.rs:93-132                                        *)
(***************************************************************************)
\* input.split_at(mid)
split_left(input, mid) == SubSeq(input, 1, mid)
split_right(input, mid) == SubSeq(input, mid + 1, Len(input))

RECURSIVE hash_recurse(_, _)
hash_recurse(input, finalization) ==
    IF Len(input) <= CHUNK_SIZE
    THEN hash_node(input, finalization)
    ELSE LET mid == left_len(Len(input))
             left_hash == hash_recurse(split_left(input, mid), NotRoot)
             right_hash == hash_recurse(split_right(input, mid), NotRoot)
         IN  parent_hash(left_hash, right_hash, finalization)

hash_single_threaded(input) == hash_recurse(input, Root(Len(input)))

(***************************************************************************)
(* Incremental merger: hash.rs:149-248                                     *)
(***************************************************************************)
State_new == [subtrees |-> <<>>, subtree_count |-> 0]

\* ArrayVec::pop / push on the subtree stack (top of stack = last element).
top(subtrees) == subtrees[Len(subtrees)]
pop(subtrees) == SubSeq(subtrees, 1, Len(subtrees) - 1)

\* Faulty variant: the parent node holds the children in pop order, right
\* child first.
merge_inner_pop_order(self, finalization) ==
    LET right_child == top(self.subtrees)
        left_child == top(pop(self.subtrees))
        parent_node == <<right_child, left_child>>
        parent == parent_hash(left_child, right_child, finalization)
    IN  [state |-> [self EXCEPT !.subtrees = Append(pop(pop(self.subtrees)), parent)],
         parent_node |-> parent_node]

\* Pops right then left, pushes the parent hash; returns the new state and
\* the parent node (left child bytes followed by right child bytes).
\* Evaluating it on a stack of fewer than two hashes is the unwrap() panic.
merge_inner(self, finalization) ==
    LET right_child == top(self.subtrees)
        left_child == top(pop(self.subtrees))
        parent_node == <<left_child, right_child>>
        parent == parent_hash(left_child, right_child, finalization)
    IN  [state |-> [self EXCEPT !.subtrees = Append(pop(pop(self.subtrees)), parent)],
         parent_node |-> parent_node]

RECURSIVE count_ones(_)
count_ones(n) == IF n = 0 THEN 0 ELSE (n % 2) + count_ones(n \div 2)

\* Faulty variant: off by one, a pending merge is noticed one push late.
needs_merge_late(self) == Len(self.subtrees) > count_ones(self.subtree_count) + 1

needs_merge(self) == Len(self.subtrees) > count_ones(self.subtree_count)

\* Faulty variant: push_subtree without its while loop.
merge_pending_none(self) == self

\* Faulty variant: an if in place of the while, one pending merge is done.
merge_pending_once(self) ==
    IF needs_merge(self) THEN merge_inner(self, NotRoot).state ELSE self

\* The while loop of push_subtree.
RECURSIVE merge_pending(_)
merge_pending(self) ==
    IF needs_merge(self) THEN merge_pending(merge_inner(self, NotRoot).state) ELSE self

\* Faulty variant: the pending merges are not done before the push.
push_subtree_no_merge(self, hash) ==
    [subtrees |-> Append(self.subtrees, hash),
     subtree_count |-> self.subtree_count + 1]

push_subtree(self, hash) ==
    LET merged == merge_pending(self)
    IN  [subtrees |-> Append(merged.subtrees, hash),
         subtree_count |-> merged.subtree_count + 1]

\* Faulty variant: the counter is not consulted, the two top subtrees are
\* merged whenever there are two.
merge_parent_greedy(self) ==
    IF Len(self.subtrees) < 2
    THEN [state |-> self, parent |-> <<>>]
    ELSE LET m == merge_inner(self, NotRoot)
         IN  [state |-> m.state, parent |-> <<m.parent_node>>]

\* Returns [state, parent]: parent is <<>> for None, <<node>> for Some(node).
merge_parent(self) ==
    IF ~needs_merge(self)
    THEN [state |-> self, parent |-> <<>>]
    ELSE LET m == merge_inner(self, NotRoot)
         IN  [state |-> m.state, parent |-> <<m.parent_node>>]

\* Faulty variant: without the assert!, a short stack is only noticed by
\* the unwrap() of merge_inner's second pop, after the first pop.
merge_finish_unwrap_panic(self, finalization) ==
    IF Len(self.subtrees) < 2
    THEN [state |-> [self EXCEPT !.subtrees = IF @ = <<>> THEN @ ELSE pop(@)],
          parent |-> <<>>, root |-> <<>>, panic |-> TRUE]
    ELSE IF Len(self.subtrees) > 2
    THEN LET m == merge_inner(self, NotRoot)
         IN  [state |-> m.state, parent |-> <<m.parent_node>>, root |-> <<>>,
              panic |-> FALSE]
    ELSE LET m == merge_inner(self, finalization)
             root_hash == top(m.state.subtrees)
         IN  [state |-> [m.state EXCEPT !.subtrees = pop(@)],
              parent |-> <<m.parent_node>>, root |-> <<root_hash>>, panic |-> FALSE]

\* Faulty variant: every merge of merge_finish takes the caller's
\* finalization.
merge_finish_all_final(self, finalization) ==
    IF ~(Len(self.subtrees) >= 2)
    THEN [state |-> self, parent |-> <<>>, root |-> <<>>, panic |-> TRUE]
    ELSE IF Len(self.subtrees) > 2
    THEN LET m == merge_inner(self, finalization)
         IN  [state |-> m.state, parent |-> <<m.parent_node>>, root |-> <<>>,
              panic |-> FALSE]
    ELSE LET m == merge_inner(self, finalization)
             root_hash == top(m.state.subtrees)
         IN  [state |-> [m.state EXCEPT !.subtrees = pop(@)],
              parent |-> <<m.parent_node>>, root |-> <<root_hash>>, panic |-> FALSE]

\* Faulty variant: the root is made one call early, when three subtrees are
\* left.
merge_finish_early_root(self, finalization) ==
    IF ~(Len(self.subtrees) >= 2)
    THEN [state |-> self, parent |-> <<>>, root |-> <<>>, panic |-> TRUE]
    ELSE IF Len(self.subtrees) > 3
    THEN LET m == merge_inner(self, NotRoot)
         IN  [state |-> m.state, parent |-> <<m.parent_node>>, root |-> <<>>,
              panic |-> FALSE]
    ELSE LET m == merge_inner(self, finalization)
             root_hash == top(m.state.subtrees)
         IN  [state |-> [m.state EXCEPT !.subtrees = pop(@)],
              parent |-> <<m.parent_node>>, root |-> <<root_hash>>, panic |-> FALSE]

\* Returns [state, parent, root, panic]: root is <<>> for None, <<h>> for
\* Some(h); panic is the failed assert!, which leaves self untouched.
merge_finish(self, finalization) ==
    IF ~(Len(self.subtrees) >= 2)
    THEN [state |-> self, parent |-> <<>>, root |-> <<>>, panic |-> TRUE]
    ELSE IF Len(self.subtrees) > 2
    THEN LET m == merge_inner(self, NotRoot)
         IN  [state |-> m.state, parent |-> <<m.parent_node>>, root |-> <<>>,
              panic |-> FALSE]
    ELSE LET m == merge_inner(self, finalization)
             root_hash == top(m.state.subtrees)
         IN  [state |-> [m.state EXCEPT !.subtrees = pop(@)],
              parent |-> <<m.parent_node>>, root |-> <<root_hash>>, panic |-> FALSE]

\* The loop of finish: [state, root, panic].
RECURSIVE finish(_, _)
finish(self, finalization) ==
    LET r == merge_finish(self, finalization)
    IN  IF r.panic THEN [state |-> r.state, root |-> <<>>, panic |-> TRUE]
        ELSE IF r.root # <<>> THEN [state |-> r.state, root |-> r.root, panic |-> FALSE]
        ELSE finish(r.state, finalization)


(***************************************************************************)
(* State of the model.                                                     *)
(***************************************************************************)
VARIABLES
    pc,           \* where the calling thread stands
    call,         \* the function called or the object in use, with its argument
    result,       \* <<>> until the call returns, then <<value>>
    tasks,        \* fork-join: the hash_recurse_rayon frames on the pool
    returned,     \* fork-join: values returned by finished frames
    state,        \* State { subtrees, subtree_count }
    total_len,    \* bytes of input taken so far
    events,       \* history: the calls made on a State, with what they returned
    chunk,        \* Writer: the BLAKE2b state of the current chunk
    chunk_len,    \* Writer: bytes in the current chunk
    writes,       \* history: the lengths of the slices passed to write, in order
    current_buf,  \* RayonWriter: the job buffer being filled
    free_bufs,    \* RayonWriter: buffers that came back from workers
    receivers,    \* RayonWriter: the receivers of the jobs in flight, oldest first
    job_size,     \* RayonWriter
    max_jobs,     \* RayonWriter
    input,        \* the rest of the slice of the write call in progress
    spawned,      \* the jobs given to rayon::spawn, in spawn order, and their channels
    frame,        \* locals of await_half and finish while they wait on a receiver,
                  \* and (history) the writer as it was when await_half was called
    allocated,    \* history: job buffers created so far
    pushed        \* history: input offsets of the jobs whose hashes went into state

vars == <<pc, call, result, tasks, returned, state, total_len, events,
          chunk, chunk_len, writes, current_buf, free_bufs, receivers, job_size,
          max_jobs, input, spawned, frame, allocated, pushed>>

hashVars == <<tasks, returned>>
mergerVars == <<state, total_len, events>>
writerVars == <<chunk, chunk_len, writes>>
rayonVarsButFrame == <<current_buf, free_bufs, receivers, job_size, max_jobs, input,
                       spawned, allocated, pushed>>
rayonVars == <<rayonVarsButFrame, frame>>

\* The values of the variables a specification does not use.
NoHash == tasks = {} /\ returned = {}
NoMerger == state = State_new /\ total_len = 0 /\ events = <<>>
NoWriter == chunk = new_blake2b_state /\ chunk_len = 0 /\ writes = <<>>
NoFrame == [halfway |-> <<>>, drain_left |-> 0, last_job_hash |-> <<>>, entry |-> <<>>]
NoRayon ==
    /\ current_buf = <<>> /\ free_bufs = <<>> /\ receivers = <<>>
    /\ job_size = 0 /\ max_jobs = 0 /\ input = <<>> /\ spawned = <<>>
    /\ frame = NoFrame /\ allocated = 0 /\ pushed = <<>>

(***************************************************************************)
(* The all-at-once functions, called on every input up to MaxLen bytes.    *)
(* A frame of hash_recurse_rayon covers input[lo..hi]; rayon::join runs    *)
(* its two closures in any order, possibly at the same time.               *)
(***************************************************************************)
Frame(lo, hi, finalization, at) ==
    [lo |-> lo, hi |-> hi, finalization |-> finalization, at |-> at]

Returned(lo, hi, hash) == [lo |-> lo, hi |-> hi, hash |-> hash]

InitHash ==
    /\ pc = "idle"
    /\ call = [fn |-> "none", arg |-> <<>>]
    /\ result = <<>>
    /\ NoHash
    /\ NoMerger
    /\ NoWriter
    /\ NoRayon

\* hash_recurse(input, Root(len)), as test_serial_vs_parallel calls it.
call_hash_recurse(n) ==
    /\ pc = "idle"
    /\ call' = [fn |-> "hash_recurse", arg |-> Bytes(0, n)]
    /\ result' = <<hash_recurse(Bytes(0, n), Root(n))>>
    /\ pc' = "returned"
    /\ UNCHANGED <<tasks, returned>>
    /\ UNCHANGED mergerVars
    /\ UNCHANGED writerVars
    /\ UNCHANGED rayonVars

call_hash_single_threaded(n) ==
    /\ pc = "idle"
    /\ call' = [fn |-> "hash_single_threaded", arg |-> Bytes(0, n)]
    /\ result' = <<hash_single_threaded(Bytes(0, n))>>
    /\ pc' = "returned"
    /\ UNCHANGED <<tasks, returned>>
    /\ UNCHANGED mergerVars
    /\ UNCHANGED writerVars
    /\ UNCHANGED rayonVars

\* hash_recurse_rayon(input, Root(len)): the outermost frame is entered.
call_hash_recurse_rayon(n) ==
    /\ pc = "idle"
    /\ call' = [fn |-> "hash_recurse_rayon", arg |-> Bytes(0, n)]
    /\ tasks' = {Frame(0, n, Root(n), "entry")}
    /\ pc' = "join"
    /\ UNCHANGED <<result, returned>>
    /\ UNCHANGED mergerVars
    /\ UNCHANGED writerVars
    /\ UNCHANGED rayonVars

\* hash(input): serial up to MAX_SINGLE_THREADED bytes, fork-join above.
call_hash(n) ==
    /\ pc = "idle"
    /\ call' = [fn |-> "hash", arg |-> Bytes(0, n)]
    /\ IF n <= MAX_SINGLE_THREADED
       THEN /\ result' = <<hash_recurse(Bytes(0, n), Root(n))>>
            /\ pc' = "returned"
            /\ UNCHANGED <<tasks, returned>>
       ELSE /\ tasks' = {Frame(0, n, Root(n), "entry")}
            /\ pc' = "join"
            /\ UNCHANGED <<result, returned>>
    /\ UNCHANGED mergerVars
    /\ UNCHANGED writerVars
    /\ UNCHANGED rayonVars

\* A frame of at most one chunk returns hash_node of its slice.
hash_recurse_rayon_leaf(t) ==
    /\ pc = "join"
    /\ t \in tasks /\ t.at = "entry"
    /\ t.hi - t.lo <= CHUNK_SIZE
    /\ tasks' = tasks \ {t}
    /\ returned' = returned \cup
           {Returned(t.lo, t.hi, hash_node(Bytes(t.lo, t.hi), t.finalization))}
    /\ UNCHANGED <<pc, call, result>>
    /\ UNCHANGED mergerVars
    /\ UNCHANGED writerVars
    /\ UNCHANGED rayonVars

\* Faulty variant: the split is made after the first chunk instead of at
\* left_len.
rayon_join_closures_first_chunk(t) ==
    LET mid == t.lo + CHUNK_SIZE
    IN  {Frame(t.lo, mid, NotRoot, "entry"), Frame(mid, t.hi, NotRoot, "entry")}

\* The two closures a longer frame hands to rayon::join.
rayon_join_closures(t) ==
    LET mid == t.lo + left_len(t.hi - t.lo)
    IN  {Frame(t.lo, mid, NotRoot, "entry"), Frame(mid, t.hi, NotRoot, "entry")}

hash_recurse_rayon_fork(t) ==
    /\ pc = "join"
    /\ t \in tasks /\ t.at = "entry"
    /\ t.hi - t.lo > CHUNK_SIZE
    /\ tasks' = (tasks \ {t}) \cup {[t EXCEPT !.at = "join"]} \cup rayon_join_closures(t)
    /\ UNCHANGED <<pc, call, result, returned>>
    /\ UNCHANGED mergerVars
    /\ UNCHANGED writerVars
    /\ UNCHANGED rayonVars

\* rayon::join returns once both closures have; the frame returns the
\* parent hash of (left_hash, right_hash).
hash_recurse_rayon_join(t) ==
    /\ pc = "join"
    /\ t \in tasks /\ t.at = "join"
    /\ \E l \in returned, r \in returned :
          /\ l.lo = t.lo /\ l.hi = r.lo /\ r.hi = t.hi
          /\ tasks' = tasks \ {t}
          /\ returned' = (returned \ {l, r}) \cup
                 {Returned(t.lo, t.hi, parent_hash(l.hash, r.hash, t.finalization))}
    /\ UNCHANGED <<pc, call, result>>
    /\ UNCHANGED mergerVars
    /\ UNCHANGED writerVars
    /\ UNCHANGED rayonVars

\* The outermost frame has returned to the caller.
hash_return ==
    /\ pc = "join"
    /\ tasks = {}
    /\ \E v \in returned :
          /\ result' = <<v.hash>>
          /\ returned' = returned \ {v}
    /\ pc' = "returned"
    /\ UNCHANGED <<call, tasks>>
    /\ UNCHANGED mergerVars
    /\ UNCHANGED writerVars
    /\ UNCHANGED rayonVars

\* largest_power_of_two(n), n != 0
call_largest_power_of_two(n) ==
    /\ pc = "idle"
    /\ call' = [fn |-> "largest_power_of_two", arg |-> n]
    /\ result' = <<largest_power_of_two(n)>>
    /\ pc' = "returned"
    /\ UNCHANGED <<tasks, returned>>
    /\ UNCHANGED mergerVars
    /\ UNCHANGED writerVars
    /\ UNCHANGED rayonVars

\* left_len(content_len), content_len > CHUNK_SIZE
call_left_len(content_len) ==
    /\ pc = "idle"
    /\ call' = [fn |-> "left_len", arg |-> content_len]
    /\ result' = <<left_len(content_len)>>
    /\ pc' = "returned"
    /\ UNCHANGED <<tasks, returned>>
    /\ UNCHANGED mergerVars
    /\ UNCHANGED writerVars
    /\ UNCHANGED rayonVars

NextHash ==
    \/ \E n \in 0..MaxLen : call_hash_recurse(n)
    \/ \E n \in 0..MaxLen : call_hash_single_threaded(n)
    \/ \E n \in 0..MaxLen : call_hash_recurse_rayon(n)
    \/ \E n \in 0..MaxLen : call_hash(n)
    \/ \E t \in tasks : hash_recurse_rayon_leaf(t)
    \/ \E t \in tasks : hash_recurse_rayon_fork(t)
    \/ \E t \in tasks : hash_recurse_rayon_join(t)
    \/ hash_return
    \/ \E n \in 1..MaxLen : call_largest_power_of_two(n)
    \/ \E n \in (CHUNK_SIZE + 1)..MaxLen : call_left_len(n)

SpecHash == InitHash /\ [][NextHash]_vars

HashFunctions == {"hash", "hash_single_threaded", "hash_recurse", "hash_recurse_rayon"}

\* C5: whichever of hash, hash_single_threaded, hash_recurse and
\* hash_recurse_rayon is called on an input I, with Root(|I|), and in
\* whatever order the forked halves complete, the value returned is the
\* root the serial recursion gives for I.
PathAgreement ==
    (pc = "returned" /\ call.fn \in HashFunctions) =>
        result = <<hash_recurse(call.arg, Root(Len(call.arg)))>>

\* hash() has returned from the fork-join path, above the 4-chunk threshold,
\* on an input that is not a whole number of chunks.
PathAgreementWitness ==
    /\ pc = "returned"
    /\ call.fn = "hash"
    /\ Len(call.arg) = MAX_SINGLE_THREADED + CHUNK_SIZE + 1
    /\ result = <<hash_single_threaded(call.arg)>>

IsPowerOfTwo(p) == \E k \in 0..MaxLen : p = 2^k

\* C9: for n > CHUNK_SIZE, left_len(n) is a multiple of CHUNK_SIZE, a power
\* of two of chunks, at least 1 and less than n, and half of n when n is
\* 2^k chunks (k >= 1); largest_power_of_two(m), m >= 1, is the power of two
\* p with p <= m < 2p.
TreeShapeLaws ==
    /\ (pc = "returned" /\ call.fn = "left_len") =>
          LET n == call.arg
              l == result[1]
          IN  /\ l % CHUNK_SIZE = 0
              /\ IsPowerOfTwo(l \div CHUNK_SIZE)
              /\ 1 <= l /\ l < n
              /\ \A k \in 1..MaxLen :
                    n = (2^k) * CHUNK_SIZE => l = (2^(k - 1)) * CHUNK_SIZE
    /\ (pc = "returned" /\ call.fn = "largest_power_of_two") =>
          LET m == call.arg
              p == result[1]
          IN  IsPowerOfTwo(p) /\ p <= m /\ m < 2 * p

\* left_len has returned for an input of exactly four chunks: two chunks go
\* left, two stay on the right.
TreeShapeLawsWitness ==
    /\ pc = "returned"
    /\ call.fn = "left_len"
    /\ call.arg = 4 * CHUNK_SIZE
    /\ result = <<2 * CHUNK_SIZE>>

(***************************************************************************)
(* A State driven directly, as drive_state does (hash.rs:530-543): chunk   *)
(* hashes are pushed in input order, every chunk CHUNK_SIZE bytes long     *)
(* except possibly the last one pushed, and the caller may ask for parent  *)
(* nodes with merge_parent and merge_finish.  The input of the session is  *)
(* what has been pushed: total_len bytes.                                  *)
(***************************************************************************)
Event(op, parent, root) == [op |-> op, parent |-> parent, root |-> root]

InitState ==
    /\ pc = "open"
    /\ call = [fn |-> "State", arg |-> <<>>]
    /\ result = <<>>
    /\ state = State_new
    /\ total_len = 0
    /\ events = <<>>
    /\ NoHash
    /\ NoWriter
    /\ NoRayon

\* state.push_subtree(hash_node(chunk, NotRoot)) for the next chunk of the
\* input, len bytes long.  While the State is open the pushes obey the
\* documented precondition: no push follows a short chunk.  A push into a
\* State whose finish has returned is the caller's mistake; the code takes
\* it like any other.
State_push_subtree(len) ==
    /\ call.fn = "State"
    /\ pc \in {"open", "returned"}
    /\ total_len % CHUNK_SIZE = 0
    /\ total_len + len <= MaxLen
    /\ state' = push_subtree(state, hash_node(Bytes(total_len, total_len + len), NotRoot))
    /\ total_len' = total_len + len
    /\ events' = Append(events, Event("push_subtree", <<>>, <<>>))
    /\ UNCHANGED <<pc, call, result>>
    /\ UNCHANGED hashVars
    /\ UNCHANGED writerVars
    /\ UNCHANGED rayonVars

\* state.merge_parent() returning Some(parent_node).  A call that returns
\* None changes nothing.
State_merge_parent ==
    /\ call.fn = "State"
    /\ pc = "open"
    /\ LET r == merge_parent(state)
       IN  /\ r.parent # <<>>
           /\ state' = r.state
           /\ events' = Append(events, Event("merge_parent", r.parent, <<>>))
    /\ UNCHANGED <<pc, call, result, total_len>>
    /\ UNCHANGED hashVars
    /\ UNCHANGED writerVars
    /\ UNCHANGED rayonVars

\* state.merge_finish(Root(total_len)): one call of the caller's loop.
State_merge_finish ==
    /\ call.fn = "State"
    /\ pc \in {"open", "finishing", "returned"}
    /\ LET r == merge_finish(state, Root(total_len))
       IN  /\ state' = r.state
           /\ events' = Append(events, Event("merge_finish", r.parent, r.root))
           /\ pc' = IF r.panic THEN "panicked"
                    ELSE IF r.root # <<>> THEN "returned" ELSE "finishing"
           /\ result' = IF r.panic THEN result ELSE r.root
    /\ UNCHANGED <<call, total_len>>
    /\ UNCHANGED hashVars
    /\ UNCHANGED writerVars
    /\ UNCHANGED rayonVars

\* state.finish(Root(total_len))
State_finish ==
    /\ call.fn = "State"
    /\ pc \in {"open", "finishing", "returned"}
    /\ LET r == finish(state, Root(total_len))
       IN  /\ state' = r.state
           /\ events' = Append(events, Event("finish", <<>>, r.root))
           /\ pc' = IF r.panic THEN "panicked" ELSE "returned"
           /\ result' = IF r.panic THEN result ELSE r.root
    /\ UNCHANGED <<call, total_len>>
    /\ UNCHANGED hashVars
    /\ UNCHANGED writerVars
    /\ UNCHANGED rayonVars

NextState ==
    \/ \E len \in 1..CHUNK_SIZE : State_push_subtree(len)
    \/ State_merge_parent
    \/ State_merge_finish
    \/ State_finish

SpecState == InitState /\ [][NextState]_vars

LastOp == IF events = <<>> THEN "none" ELSE events[Len(events)].op

\* The calls drive_state makes: pushes only, then finish.
PushesThenFinish ==
    /\ Len(events) >= 2
    /\ events[Len(events)].op = "finish"
    /\ \A i \in 1..(Len(events) - 1) : events[i].op = "push_subtree"

\* C4: for an input longer than one chunk, pushing the interior hashes of
\* its chunks in order into a fresh State and calling finish(Root(|I|))
\* returns the root of the recursive hasher for that input.
MergerEquivalence ==
    (call.fn = "State" /\ pc = "returned" /\ PushesThenFinish /\ total_len > CHUNK_SIZE) =>
        result = <<hash_recurse(Bytes(0, total_len), Root(total_len))>>

\* Five full chunks and a last chunk of one byte were pushed, then finish
\* returned the root.
MergerEquivalenceWitness ==
    /\ call.fn = "State" /\ pc = "returned" /\ PushesThenFinish
    /\ total_len = 5 * CHUNK_SIZE + 1
    /\ state.subtree_count = 6
    /\ result = <<hash_recurse(Bytes(0, total_len), Root(total_len))>>

\* C6 as stated: right after push_subtree returns, the stack holds
\* popcount(subtree_count) hashes.
StackIsPopcountAfterPush ==
    (call.fn = "State" /\ pc = "open" /\ LastOp = "push_subtree") =>
        Len(state.subtrees) = count_ones(state.subtree_count)

\* C6, amended: right after push_subtree returns, the stack holds
\* popcount(subtree_count - 1) + 1 hashes; it holds popcount(subtree_count)
\* hashes once the pending merges are done, that is when merge_parent
\* returns None.
StackIsPopcountAfterMerges ==
    (call.fn = "State" /\ pc = "open" /\ state.subtree_count >= 1) =>
        /\ LastOp = "push_subtree" =>
              Len(state.subtrees) = count_ones(state.subtree_count - 1) + 1
        /\ merge_parent(state).parent = <<>> =>
              Len(state.subtrees) = count_ones(state.subtree_count)

\* After the fourth push, merge_parent was called until the two pending
\* merges were done: one subtree is left for the one bit of the counter.
StackIsPopcountWitness ==
    /\ call.fn = "State" /\ pc = "open"
    /\ state.subtree_count = 4
    /\ LastOp = "merge_parent"
    /\ merge_parent(state).parent = <<>>
    /\ Len(state.subtrees) = 1

\* A step that is a call of merge_finish or finish.
IsFinishCall ==
    /\ Len(events') = Len(events) + 1
    /\ events'[Len(events')].op \in {"merge_finish", "finish"}

\* C10: merge_finish or finish called on a State holding fewer than two
\* subtrees aborts, and leaves the stack and the counter as they were.
ShortFinishAborts ==
    [][(call.fn = "State" /\ Len(state.subtrees) < 2 /\ IsFinishCall) =>
          (pc' = "panicked" /\ state' = state /\ result' = result)]_vars

\* merge_finish was called after a single push and aborted: the pushed hash
\* is still on the stack.
ShortFinishAbortsWitness ==
    /\ call.fn = "State" /\ pc = "panicked"
    /\ LastOp = "merge_finish"
    /\ Len(state.subtrees) = 1 /\ state.subtree_count = 1

\* A step that is a call of push_subtree.
IsPushCall ==
    /\ Len(events') = Len(events) + 1
    /\ events'[Len(events')].op = "push_subtree"

\* C11: a push into a State whose finish has returned the root aborts, and
\* the hash is not added to the stack.
ExhaustedPushAborts ==
    [][(call.fn = "State" /\ pc = "returned" /\ IsPushCall) =>
          (pc' = "panicked" /\ state' = state)]_vars

\* Two chunks were pushed, finish returned the root, and a third push went
\* through: its hash is the only one on the stack.
ExhaustedPushWitness ==
    /\ call.fn = "State" /\ pc = "returned"
    /\ Len(events) = 4
    /\ events[3].op = "finish" /\ events[3].root # <<>>
    /\ events[4].op = "push_subtree"
    /\ state.subtrees = <<hash_node(Bytes(2 * CHUNK_SIZE, 3 * CHUNK_SIZE), NotRoot)>>
    /\ state.subtree_count = 3

(***************************************************************************)
(* Streaming writer: hash.rs:253-307                                       *)
(***************************************************************************)
Writer_new ==
    [chunk |-> new_blake2b_state, chunk_len |-> 0, total_len |-> 0, state |-> State_new]

\* Faulty variant: a chunk is pushed as soon as it is full, at the end of
\* the iteration that filled it, instead of when more input has come.
RECURSIVE Writer_write_eager(_, _)
Writer_write_eager(self, slice) ==
    IF slice = <<>> THEN self
    ELSE LET want == CHUNK_SIZE - self.chunk_len
             take == Min(want, Len(slice))
             filled == [self EXCEPT !.chunk = update(@, SubSeq(slice, 1, take)),
                                    !.chunk_len = @ + take,
                                    !.total_len = @ + take]
             flushed == IF filled.chunk_len = CHUNK_SIZE
                        THEN [filled EXCEPT
                                 !.state = push_subtree(@, finalize_hash(filled.chunk, NotRoot)),
                                 !.chunk = new_blake2b_state,
                                 !.chunk_len = 0]
                        ELSE filled
         IN  Writer_write_eager(flushed, SubSeq(slice, take + 1, Len(slice)))

\* write: the loop over the input slice; returns the writer after it.
RECURSIVE Writer_write(_, _)
Writer_write(self, slice) ==
    IF slice = <<>> THEN self
    ELSE LET flushed == IF self.chunk_len = CHUNK_SIZE
                        THEN [self EXCEPT
                                 !.state = push_subtree(@, finalize_hash(self.chunk, NotRoot)),
                                 !.chunk = new_blake2b_state,
                                 !.chunk_len = 0]
                        ELSE self
             want == CHUNK_SIZE - flushed.chunk_len
             take == Min(want, Len(slice))
             filled == [flushed EXCEPT !.chunk = update(@, SubSeq(slice, 1, take)),
                                       !.chunk_len = @ + take,
                                       !.total_len = @ + take]
         IN  Writer_write(filled, SubSeq(slice, take + 1, Len(slice)))

\* Faulty variant: an input of exactly one full chunk is sent through the
\* State instead of being finalized as the root.
Writer_finish_strict(self) ==
    LET finalization == Root(self.total_len)
    IN  IF self.total_len < CHUNK_SIZE
        THEN [self |-> [self EXCEPT !.chunk = finalize_hash_state(@, finalization)],
              root |-> <<finalize_hash(self.chunk, finalization)>>,
              panic |-> FALSE]
        ELSE LET last_chunk_hash == finalize_hash(self.chunk, NotRoot)
                 r == finish(push_subtree(self.state, last_chunk_hash), finalization)
             IN  [self |-> [self EXCEPT !.state = r.state], root |-> r.root,
                  panic |-> r.panic]

\* finish: [self, root, panic], the writer after the call and Some(root).
Writer_finish(self) ==
    LET finalization == Root(self.total_len)
    IN  IF self.total_len <= CHUNK_SIZE
        THEN [self |-> [self EXCEPT !.chunk = finalize_hash_state(@, finalization)],
              root |-> <<finalize_hash(self.chunk, finalization)>>,
              panic |-> FALSE]
        ELSE LET last_chunk_hash == finalize_hash(self.chunk, NotRoot)
                 r == finish(push_subtree(self.state, last_chunk_hash), finalization)
             IN  [self |-> [self EXCEPT !.state = r.state], root |-> r.root,
                  panic |-> r.panic]

WriterSelf ==
    [chunk |-> chunk, chunk_len |-> chunk_len, total_len |-> total_len, state |-> state]

InitWriter ==
    /\ pc = "open"
    /\ call = [fn |-> "Writer", arg |-> <<>>]
    /\ result = <<>>
    /\ chunk = Writer_new.chunk
    /\ chunk_len = Writer_new.chunk_len
    /\ total_len = Writer_new.total_len
    /\ state = Writer_new.state
    /\ writes = <<>>
    /\ events = <<>>
    /\ NoHash
    /\ NoRayon

\* writer.write(input) with the next len bytes of the input.
Writer_call_write(len) ==
    /\ call.fn = "Writer"
    /\ pc = "open"
    /\ Len(writes) < MaxWrites
    /\ total_len + len <= MaxLen
    /\ LET after == Writer_write(WriterSelf, Bytes(total_len, total_len + len))
       IN  /\ chunk' = after.chunk
           /\ chunk_len' = after.chunk_len
           /\ total_len' = after.total_len
           /\ state' = after.state
    /\ writes' = Append(writes, len)
    /\ UNCHANGED <<pc, call, result, events>>
    /\ UNCHANGED hashVars
    /\ UNCHANGED rayonVars

\* writer.finish()
Writer_call_finish ==
    /\ call.fn = "Writer"
    /\ pc = "open"
    /\ LET r == Writer_finish(WriterSelf)
       IN  /\ chunk' = r.self.chunk
           /\ state' = r.self.state
           /\ result' = r.root
           /\ pc' = IF r.panic THEN "panicked" ELSE "returned"
    /\ UNCHANGED <<call, total_len, events, chunk_len, writes>>
    /\ UNCHANGED hashVars
    /\ UNCHANGED rayonVars

NextWriter ==
    \/ \E len \in 0..MaxWrite : Writer_call_write(len)
    \/ Writer_call_finish

SpecWriter == InitWriter /\ [][NextWriter]_vars

RECURSIVE SumSeq(_)
SumSeq(q) == IF q = <<>> THEN 0 ELSE q[1] + SumSeq(Tail(q))

\* C3: however the input is cut into write calls, finish returns the root
\* of the all-at-once hash of the concatenation of the slices written.
StreamingAgreement ==
    (call.fn = "Writer" /\ pc = "returned") =>
        result = <<hash_recurse(Bytes(0, SumSeq(writes)), Root(SumSeq(writes)))>>

\* The input came as a full chunk, an empty slice, a slice that runs over
\* the next chunk boundary and a slice that ends on one; finish returned.
StreamingAgreementWitness ==
    /\ call.fn = "Writer" /\ pc = "returned"
    /\ writes = <<CHUNK_SIZE, 0, CHUNK_SIZE + 1, CHUNK_SIZE - 1>>
    /\ result = <<hash_recurse(Bytes(0, 3 * CHUNK_SIZE), Root(3 * CHUNK_SIZE))>>

\* C12: while the input written is one chunk or less (no input at all and
\* exactly one full chunk included), neither write nor finish pushes
\* anything into the State, and finish returns the hash of that single
\* chunk finalized with Root(n).
SingleChunkBypassesState ==
    (call.fn = "Writer" /\ total_len <= CHUNK_SIZE) =>
        /\ state = State_new
        /\ pc # "panicked"
        /\ pc = "returned" =>
              result = <<hash_node(Bytes(0, total_len), Root(total_len))>>

\* Exactly one full chunk was written in three slices, one of them empty,
\* and finish returned its hash as the root; the State was never touched.
SingleChunkBypassesStateWitness ==
    /\ call.fn = "Writer" /\ pc = "returned"
    /\ writes = <<1, 0, CHUNK_SIZE - 1>>
    /\ total_len = CHUNK_SIZE
    /\ state = State_new
    /\ result = <<hash_node(Bytes(0, CHUNK_SIZE), Root(CHUNK_SIZE))>>

(***************************************************************************)
(* Parallel writer: hash.rs:310-433                                        *)
(*                                                                         *)
(* The calling thread runs write and finish; every job given to            *)
(* rayon::spawn runs on the pool at its own pace.  A call is cut where it  *)
(* may block: at each recv().                                              *)
(***************************************************************************)
\* The struct, with the pool (spawned) and the count of buffers created.
RayonSelf ==
    [state |-> state, total_len |-> total_len, current_buf |-> current_buf,
     free_bufs |-> free_bufs, receivers |-> receivers, job_size |-> job_size,
     max_jobs |-> max_jobs, spawned |-> spawned, allocated |-> allocated,
     pushed |-> pushed]

\* The variables take the fields of the writer `self`.
RayonBecomes(self) ==
    /\ state' = self.state
    /\ total_len' = self.total_len
    /\ current_buf' = self.current_buf
    /\ free_bufs' = self.free_bufs
    /\ receivers' = self.receivers
    /\ job_size' = self.job_size
    /\ max_jobs' = self.max_jobs
    /\ spawned' = self.spawned
    /\ allocated' = self.allocated
    /\ pushed' = self.pushed

\* A job on the pool: the buffer it owns and its bounded(1) channel, which
\* holds <<>> or the one message <<(hash, buf)>>.
Job(full_buf) == [full_buf |-> full_buf, done |-> FALSE, channel |-> <<>>]
Message(hash, buf) == [hash |-> hash, buf |-> buf]

\* The input offset of the first byte of a non-empty buffer.
Offset(buf) == buf[1] - 1

\* self.state.push_subtree(hash), for the job whose buffer is buf.
RayonWriter_push(self, hash, buf) ==
    [self EXCEPT !.state = push_subtree(@, hash),
                 !.pushed = Append(@, Offset(buf))]

\* new_buf.clear(); the full buffer is swapped out and moved into a new
\* job, whose receiver goes to the back of the queue.
RayonWriter_spawn(self, new_buf) ==
    [self EXCEPT !.current_buf = <<>>,
                 !.receivers = Append(@, Len(self.spawned) + 1),
                 !.spawned = Append(@, Job(self.current_buf))]

\* The copy at the end of a loop iteration: [self, input].
RayonWriter_extend(self, slice) ==
    LET want == self.job_size - Len(self.current_buf)
        take == Min(want, Len(slice))
    IN  [self |-> [self EXCEPT !.current_buf = @ \o SubSeq(slice, 1, take),
                               !.total_len = @ + take],
         input |-> SubSeq(slice, take + 1, Len(slice))]

\* Faulty variant: one receiver too many is let into the queue.
has_capacity_one_more(self) == Len(self.receivers) <= self.max_jobs

\* `self.receivers.len() < self.max_jobs`: a new buffer may be created.
has_capacity(self) == Len(self.receivers) < self.max_jobs

\* write: the loop, run until the input is used up or the writer has to
\* await_half: [self, input, blocked].  Each turn of the loop works on the
\* values of the writer and of the rest of the slice as the turn before
\* left them (self and slice are bound to those values).
RECURSIVE RayonWriter_write(_, _)
RayonWriter_write(self_, slice_) ==
    CHOOSE r \in {
        IF slice = <<>>
        THEN [self |-> self, input |-> slice, blocked |-> FALSE]
        ELSE IF Len(self.current_buf) = self.job_size
        THEN IF self.free_bufs # <<>>
             THEN LET new_buf == top(self.free_bufs)
                      taken == [self EXCEPT !.free_bufs = pop(@)]
                      e == RayonWriter_extend(RayonWriter_spawn(taken, new_buf), slice)
                  IN  RayonWriter_write(e.self, e.input)
             ELSE IF has_capacity(self)
             THEN LET created == [self EXCEPT !.allocated = @ + 1]
                      e == RayonWriter_extend(RayonWriter_spawn(created, <<>>), slice)
                  IN  RayonWriter_write(e.self, e.input)
             ELSE [self |-> self, input |-> slice, blocked |-> TRUE]
        ELSE LET e == RayonWriter_extend(self, slice)
             IN  RayonWriter_write(e.self, e.input)
        : self \in {self_}, slice \in {slice_}} : TRUE

\* The loop goes on after await_half has returned new_buf.
RayonWriter_write_resume(self, new_buf, slice) ==
    LET e == RayonWriter_extend(RayonWriter_spawn(self, new_buf), slice)
    IN  RayonWriter_write(e.self, e.input)

\* new_benchmarking's asserts on job_size.
new_benchmarking_accepts(size) ==
    /\ 0 = size % CHUNK_SIZE
    /\ 1 = count_ones(size \div CHUNK_SIZE)

\* RayonWriter::new_benchmarking(job_size, max_jobs), max_jobs >= 1.  The
\* empty current_buf of new() counts as the first buffer.
InitRayon ==
    /\ pc = "open"
    /\ call = [fn |-> "RayonWriter", arg |-> <<>>]
    /\ result = <<>>
    /\ state = State_new
    /\ total_len = 0
    /\ current_buf = <<>>
    /\ free_bufs = <<>>
    /\ receivers = <<>>
    /\ job_size \in {size \in 1..(MaxJobChunks * CHUNK_SIZE) : new_benchmarking_accepts(size)}
    /\ max_jobs \in 1..MaxJobs
    /\ input = <<>>
    /\ spawned = <<>>
    /\ frame = NoFrame
    /\ allocated = 1
    /\ pushed = <<>>
    /\ events = <<>>
    /\ NoHash
    /\ chunk = new_blake2b_state /\ chunk_len = 0 /\ writes = <<>>

\* Faulty variant: a job that ends without sending its result.
Worker_run_no_send(j) ==
    /\ call.fn = "RayonWriter"
    /\ j \in 1..Len(spawned)
    /\ ~spawned[j].done
    /\ spawned' = [spawned EXCEPT ![j].done = TRUE]
    /\ UNCHANGED <<pc, call, result, state, total_len, events>>
    /\ UNCHANGED <<current_buf, free_bufs, receivers, job_size, max_jobs, input,
                   frame, allocated, pushed>>
    /\ UNCHANGED hashVars
    /\ UNCHANGED writerVars

\* A job runs to its end: hash_recurse(&full_buf, NotRoot), then the send.
Worker_run(j) ==
    /\ call.fn = "RayonWriter"
    /\ j \in 1..Len(spawned)
    /\ ~spawned[j].done
    /\ spawned' = [spawned EXCEPT
                      ![j].done = TRUE,
                      ![j].channel = <<Message(hash_recurse(spawned[j].full_buf, NotRoot),
                                               spawned[j].full_buf)>>]
    /\ UNCHANGED <<pc, call, result, state, total_len, events>>
    /\ UNCHANGED <<current_buf, free_bufs, receivers, job_size, max_jobs, input,
                   frame, allocated, pushed>>
    /\ UNCHANGED hashVars
    /\ UNCHANGED writerVars

\* rayon_writer.write(input) with the next len bytes of the input, up to its
\* return or to its first await_half.
Rayon_call_write(len) ==
    /\ call.fn = "RayonWriter"
    /\ pc = "open"
    /\ total_len + len <= RayonMaxLen(job_size, max_jobs)
    /\ LET slice == Bytes(total_len, total_len + len)
           r == RayonWriter_write(RayonSelf, slice)
       IN  /\ RayonBecomes(r.self)
           /\ input' = r.input
           /\ pc' = IF r.blocked THEN "await_half" ELSE "open"
           /\ call' = [call EXCEPT !.arg = @ \o slice]
    /\ UNCHANGED <<result, events, frame>>
    /\ UNCHANGED hashVars
    /\ UNCHANGED writerVars

\* Faulty variant: the middle of an even queue is taken one place early.
await_half_halfway_low(queue) == (Len(queue) - 1) \div 2

\* The index await_half waits on first.
await_half_halfway(queue) == Len(queue) \div 2

\* The end of await_half, after the drain: pop_front, the push of the
\* halfway hash; [self, buf], buf being the buffer returned to write.
await_half_end(self, halfway) ==
    LET msg == halfway[1]
        popped == [self EXCEPT !.receivers = Tail(@)]
    IN  [self |-> RayonWriter_push(popped, msg.hash, msg.buf), buf |-> msg.buf]

\* await_half, up to the first recv: the debug_assert_eq!, then the recv on
\* the halfway receiver, which returns once that job has sent.
Rayon_await_half_recv ==
    /\ call.fn = "RayonWriter"
    /\ pc = "await_half"
    /\ IF max_jobs # Len(receivers)
       THEN /\ pc' = "panicked"
            /\ UNCHANGED <<spawned, frame>>
       ELSE LET halfway == await_half_halfway(receivers)
                j == receivers[halfway + 1]
            IN  /\ spawned[j].channel # <<>>
                /\ frame' = [frame EXCEPT !.halfway = spawned[j].channel,
                                          !.drain_left = halfway,
                                          !.entry = <<RayonSelf>>]
                /\ spawned' = [spawned EXCEPT ![j].channel = <<>>]
                /\ pc' = "await_drain"
    /\ UNCHANGED <<call, result, state, total_len, events>>
    /\ UNCHANGED <<current_buf, free_bufs, receivers, job_size, max_jobs, input,
                   allocated, pushed>>
    /\ UNCHANGED hashVars
    /\ UNCHANGED writerVars

\* Faulty variant: the receivers before the halfway one are read without
\* waiting (try_recv), and a channel found empty is the expect() panic.
Rayon_await_half_drain_try ==
    /\ call.fn = "RayonWriter"
    /\ pc = "await_drain"
    /\ frame.drain_left > 0
    /\ LET j == Head(receivers)
       IN  IF spawned[j].channel = <<>>
           THEN /\ pc' = "panicked"
                /\ UNCHANGED <<state, total_len, frame>>
                /\ UNCHANGED <<current_buf, free_bufs, receivers, job_size, max_jobs,
                               spawned, allocated, pushed>>
           ELSE /\ LET msg == spawned[j].channel[1]
                       self == RayonWriter_push(RayonSelf, msg.hash, msg.buf)
                   IN  RayonBecomes([self EXCEPT
                           !.free_bufs = Append(@, msg.buf),
                           !.receivers = Tail(@),
                           !.spawned = [@ EXCEPT ![j].channel = <<>>]])
                /\ frame' = [frame EXCEPT !.drain_left = @ - 1]
                /\ UNCHANGED pc
    /\ UNCHANGED <<call, result, events, input>>
    /\ UNCHANGED hashVars
    /\ UNCHANGED writerVars

\* One turn of `for receiver in self.receivers.drain(0..halfway)`: the recv
\* on the oldest receiver, the push of its hash, its buffer to the pool.
Rayon_await_half_drain ==
    /\ call.fn = "RayonWriter"
    /\ pc = "await_drain"
    /\ frame.drain_left > 0
    /\ LET j == Head(receivers)
       IN  /\ spawned[j].channel # <<>>
           /\ LET msg == spawned[j].channel[1]
                  self == RayonWriter_push(RayonSelf, msg.hash, msg.buf)
              IN  RayonBecomes([self EXCEPT
                      !.free_bufs = Append(@, msg.buf),
                      !.receivers = Tail(@),
                      !.spawned = [@ EXCEPT ![j].channel = <<>>]])
    /\ frame' = [frame EXCEPT !.drain_left = @ - 1]
    /\ UNCHANGED <<pc, call, result, events, input>>
    /\ UNCHANGED hashVars
    /\ UNCHANGED writerVars

\* The end of await_half (pop_front, the push of the halfway hash, its
\* buffer returned) and the write loop from there, up to its return or to
\* the next await_half.
Rayon_await_half_return ==
    /\ call.fn = "RayonWriter"
    /\ pc = "await_drain"
    /\ frame.drain_left = 0
    /\ \E ended \in {await_half_end(RayonSelf, frame.halfway)} :
       \E r \in {RayonWriter_write_resume(ended.self, ended.buf, input)} :
           /\ RayonBecomes(r.self)
           /\ input' = r.input
           /\ pc' = IF r.blocked THEN "await_half" ELSE "open"
    /\ frame' = NoFrame
    /\ UNCHANGED <<call, result, events>>
    /\ UNCHANGED hashVars
    /\ UNCHANGED writerVars

\* Faulty variant: the last job is hashed as if it were the whole input,
\* with Root(total_len), whether or not other jobs came before it.
Rayon_call_finish_last_job_root ==
    /\ call.fn = "RayonWriter"
    /\ pc = "open"
    /\ IF total_len <= job_size
       THEN /\ result' = <<hash_recurse(current_buf, Root(total_len))>>
            /\ pc' = "returned"
            /\ UNCHANGED frame
       ELSE /\ frame' = [frame EXCEPT
                            !.last_job_hash = <<hash_recurse(current_buf, Root(total_len))>>]
            /\ pc' = "finish_drain"
            /\ UNCHANGED result
    /\ UNCHANGED <<call, state, total_len, events>>
    /\ UNCHANGED rayonVarsButFrame
    /\ UNCHANGED hashVars
    /\ UNCHANGED writerVars

\* rayon_writer.finish(), up to its return (a single job) or to the drain.
Rayon_call_finish ==
    /\ call.fn = "RayonWriter"
    /\ pc = "open"
    /\ IF total_len <= job_size
       THEN /\ result' = <<hash_recurse(current_buf, Root(total_len))>>
            /\ pc' = "returned"
            /\ UNCHANGED frame
       ELSE /\ frame' = [frame EXCEPT
                            !.last_job_hash = <<hash_recurse(current_buf, NotRoot)>>]
            /\ pc' = "finish_drain"
            /\ UNCHANGED result
    /\ UNCHANGED <<call, state, total_len, events>>
    /\ UNCHANGED rayonVarsButFrame
    /\ UNCHANGED hashVars
    /\ UNCHANGED writerVars

\* Faulty variant: the queue is drained from its back.
Rayon_finish_drain_back ==
    /\ call.fn = "RayonWriter"
    /\ pc = "finish_drain"
    /\ receivers # <<>>
    /\ LET j == top(receivers)
       IN  /\ spawned[j].channel # <<>>
           /\ LET msg == spawned[j].channel[1]
                  self == RayonWriter_push(RayonSelf, msg.hash, msg.buf)
              IN  RayonBecomes([self EXCEPT
                      !.receivers = pop(@),
                      !.spawned = [@ EXCEPT ![j].channel = <<>>]])
    /\ UNCHANGED <<pc, call, result, events, input, frame>>
    /\ UNCHANGED hashVars
    /\ UNCHANGED writerVars

\* One turn of `for receiver in self.receivers.drain(..)` in finish: the
\* recv on the oldest receiver and the push of its hash.
Rayon_finish_drain ==
    /\ call.fn = "RayonWriter"
    /\ pc = "finish_drain"
    /\ receivers # <<>>
    /\ LET j == Head(receivers)
       IN  /\ spawned[j].channel # <<>>
           /\ LET msg == spawned[j].channel[1]
                  self == RayonWriter_push(RayonSelf, msg.hash, msg.buf)
              IN  RayonBecomes([self EXCEPT
                      !.receivers = Tail(@),
                      !.spawned = [@ EXCEPT ![j].channel = <<>>]])
    /\ UNCHANGED <<pc, call, result, events, input, frame>>
    /\ UNCHANGED hashVars
    /\ UNCHANGED writerVars

\* The end of finish: the push of the last job's hash and state.finish.
Rayon_finish_return ==
    /\ call.fn = "RayonWriter"
    /\ pc = "finish_drain"
    /\ receivers = <<>>
    /\ \E self \in {RayonWriter_push(RayonSelf, frame.last_job_hash[1], current_buf)} :
       \E r \in {finish(self.state, Root(total_len))} :
           /\ RayonBecomes([self EXCEPT !.state = r.state])
           /\ result' = r.root
           /\ pc' = IF r.panic THEN "panicked" ELSE "returned"
    /\ frame' = NoFrame
    /\ UNCHANGED <<call, events, input>>
    /\ UNCHANGED hashVars
    /\ UNCHANGED writerVars

NextRayon ==
    \/ \E j \in 1..Len(spawned) : Worker_run(j)
    \/ \E len \in 0..MaxRayonLen : Rayon_call_write(len)
    \/ Rayon_await_half_recv
    \/ Rayon_await_half_drain
    \/ Rayon_await_half_return
    \/ Rayon_call_finish
    \/ Rayon_finish_drain
    \/ Rayon_finish_return

SpecRayon == InitRayon /\ [][NextRayon]_vars

\* The steps the calling thread takes inside a call of write or finish.
Rayon_caller_step ==
    \/ Rayon_await_half_recv
    \/ Rayon_await_half_drain
    \/ Rayon_await_half_return
    \/ Rayon_finish_drain
    \/ Rayon_finish_return

\* A job on the pool runs to its end.
Rayon_pool_step == \E j \in 1..Len(spawned) : Worker_run(j)

\* No more jobs than this are spawned within the lengths written.
MaxSpawned == 2 * MaxJobs + 1

\* The parallel writer on a pool that goes on running jobs as long as one
\* is left to run, and with a calling thread that goes on whenever a recv
\* can return.  Nothing makes the caller call write or finish.
SpecRayonFair ==
    /\ SpecRayon
    /\ WF_vars(Rayon_caller_step)
    /\ WF_vars(Rayon_pool_step)

\* C1: for every job size, every max_jobs >= 1, every cut of the input
\* into write calls and every order in which the jobs finish, finish
\* returns the root of the recursive hash of all the bytes written.
ParallelAgreement ==
    (call.fn = "RayonWriter" /\ pc = "returned") =>
        result = <<hash_recurse(call.arg, Root(Len(call.arg)))>>

\* A writer with jobs of two chunks and max_jobs = 3 has spawned seven jobs
\* (await_half ran twice) and finished on a last job of one byte.
ParallelAgreementWitness ==
    /\ call.fn = "RayonWriter" /\ pc = "returned"
    /\ job_size = 2 * CHUNK_SIZE /\ max_jobs = 3
    /\ Len(spawned) = 7
    /\ Len(call.arg) = 7 * job_size + 1
    /\ result = <<hash_recurse(call.arg, Root(Len(call.arg)))>>

\* C2: the job hashes go into state in input order, whatever the order the
\* jobs finish in: the i-th hash pushed is that of the job at input offset
\* (i - 1) * job_size, none twice, none skipped, and when finish has
\* returned from the merger every job, the last one included, was pushed.
PushesInInputOrder ==
    call.fn = "RayonWriter" =>
        /\ \A i \in 1..Len(pushed) : pushed[i] = (i - 1) * job_size
        /\ state.subtree_count = Len(pushed)
        /\ Len(pushed) <= Len(spawned) + 1
        /\ (pc = "returned" /\ total_len > job_size) =>
              /\ Len(pushed) = Len(spawned) + 1
              /\ (Len(pushed) - 1) * job_size < total_len
              /\ total_len <= Len(pushed) * job_size

\* Two hashes are in, and in the queue a job that has finished stands
\* behind one that has not.
PushesInInputOrderWitness ==
    /\ call.fn = "RayonWriter"
    /\ Len(pushed) >= 2
    /\ \E a, b \in 1..Len(receivers) :
          /\ a < b
          /\ ~spawned[receivers[a]].done
          /\ spawned[receivers[b]].done

\* C8: the queue never holds more than max_jobs receivers, the receivers
\* and the free buffers together never number more than max_jobs, and no
\* more than max_jobs + 1 buffers are ever created.
BuffersBounded ==
    call.fn = "RayonWriter" =>
        /\ Len(receivers) <= max_jobs
        /\ Len(receivers) + Len(free_bufs) <= max_jobs
        /\ allocated <= max_jobs + 1

\* The queue is full, await_half has run before (a buffer came back
\* through the pool) and the writer is about to run it again.
BuffersBoundedWitness ==
    /\ call.fn = "RayonWriter"
    /\ pc = "await_half"
    /\ max_jobs = 3
    /\ Len(receivers) = max_jobs
    /\ allocated = max_jobs + 1
    /\ Len(pushed) >= 2

(***************************************************************************)
(* Every hashing session: a State driven directly, a Writer, or a          *)
(* RayonWriter.                                                            *)
(***************************************************************************)
InitSessions == InitState \/ InitWriter \/ InitRayon

NextSessions == NextState \/ NextWriter \/ NextRayon

SpecSessions == InitSessions /\ [][NextSessions]_vars

\* The hashes a stream of absorbed items holds.
ChildHashes(h) == {h.absorbed[i].hash[1] : i \in {k \in 1..Len(h.absorbed) : h.absorbed[k].hash # <<>>}}

\* How many of the node hashes that went into h, h included, were
\* finalised as a root (last-node flag set).
RECURSIVE RootNodes(_)
RECURSIVE SumRootNodes(_)
SumRootNodes(hs) ==
    IF hs = {} THEN 0
    ELSE LET h == CHOOSE x \in hs : TRUE
         IN  RootNodes(h) + SumRootNodes(hs \ {h})
RootNodes(h) == (IF h.last_node THEN 1 ELSE 0) + SumRootNodes(ChildHashes(h))

\* The hashes the session holds: on the stack, in the channels, in locals.
HeldHashes ==
    {state.subtrees[i] : i \in 1..Len(state.subtrees)}
    \cup {spawned[j].channel[1].hash : j \in {k \in 1..Len(spawned) : spawned[k].channel # <<>>}}
    \cup {frame.halfway[i].hash : i \in 1..Len(frame.halfway)}
    \cup {frame.last_job_hash[i] : i \in 1..Len(frame.last_job_hash)}

\* The session made no call after the one that returned the root.
SessionComplete ==
    /\ pc = "returned"
    /\ call.fn = "State" => \A i \in 1..(Len(events) - 1) : events[i].root = <<>>

\* C7: in every session one hash only is finalised as a root, and it is the
\* last hash made.  Until the root is returned every hash made (pushed,
\* merged by push_subtree, merge_parent or merge_finish, sent by a job) is
\* an interior one; the root returned is flagged as a root, carries the
\* total length, has only interior hashes below it, and no hash is left.
OneRootMadeLast ==
    /\ result = <<>> => \A h \in HeldHashes : RootNodes(h) = 0
    /\ SessionComplete =>
          /\ result # <<>>
          /\ result[1].last_node
          /\ RootNodes(result[1]) = 1
          /\ HeldHashes = {}

\* Four chunks were pushed into a State and merge_finish was called in a
\* loop from a stack of three hashes: the first call merged without the root, the second
\* returned the root.
OneRootMadeLastWitness ==
    /\ call.fn = "State" /\ SessionComplete
    /\ Len(events) >= 2
    /\ events[Len(events)].op = "merge_finish"
    /\ events[Len(events) - 1].op = "merge_finish"
    /\ state.subtree_count = 4
    /\ RootNodes(result[1]) = 1

\* C13: the subtree stack never holds more than floor(log2(c)) + 1 hashes,
\* c >= 1 being the number of pushes so far, whether or not merge_parent
\* is called in between; that count is the bit length of c, which for a
\* u64 counter is at most MAX_DEPTH, the capacity of the array.
StackWithinDepth ==
    /\ Len(state.subtrees) <= bit_length(state.subtree_count)
    /\ bit_length(state.subtree_count) <= MAX_DEPTH
    /\ Len(state.subtrees) <= MAX_DEPTH

\* Right after the eighth push into a State the bound is met: four hashes
\* on the stack, floor(log2(8)) + 1 = 4.
StackWithinDepthWitness ==
    /\ call.fn = "State" /\ pc = "open"
    /\ LastOp = "push_subtree"
    /\ state.subtree_count = 8
    /\ Len(state.subtrees) = 4
    /\ bit_length(state.subtree_count) = 4

\* What a hash on the stack stands for.  A parent hash absorbed exactly two
\* child hashes; anything else on the stack is a hash that was pushed.
IsParentHash(h) ==
    /\ Len(h.absorbed) = 2
    /\ h.absorbed[1].hash # <<>>
    /\ h.absorbed[2].hash # <<>>

LeftChild(h) == h.absorbed[1].hash[1]
RightChild(h) == h.absorbed[2].hash[1]

\* The size of the subtree under h, counted in pushed hashes.
RECURSIVE SubtreeSize(_)
SubtreeSize(h) ==
    IF IsParentHash(h) THEN SubtreeSize(LeftChild(h)) + SubtreeSize(RightChild(h)) ELSE 1

\* A perfect subtree: every parent in it has two children of equal size.
RECURSIVE IsPerfect(_)
IsPerfect(h) ==
    IsParentHash(h) =>
        /\ IsPerfect(LeftChild(h))
        /\ IsPerfect(RightChild(h))
        /\ SubtreeSize(LeftChild(h)) = SubtreeSize(RightChild(h))

\* The positions of the set bits of n, least significant first; b is the
\* position of the lowest bit of n.
RECURSIVE SetBits(_, _)
SetBits(n, b) ==
    IF n = 0 THEN <<>>
    ELSE (IF n % 2 = 1 THEN <<b>> ELSE <<>>) \o SetBits(n \div 2, b + 1)

\* The pending merges are all done: merge_parent returns None.
MergesDone ==
    /\ call.fn = "State" /\ pc = "open"
    /\ state.subtree_count >= 1
    /\ merge_parent(state).parent = <<>>

\* C14: once merge_parent has been called until it returns None after a
\* push, the stack holds popcount(subtree_count) hashes, the i-th of them
\* from the top is a perfect subtree of 2^b pushed hashes, b being the
\* position of the i-th set bit of the counter from the least significant,
\* and the sizes decrease strictly from the bottom of the stack to its top.
StackMirrorsCounter ==
    MergesDone =>
        LET n == Len(state.subtrees)
            bits == SetBits(state.subtree_count, 0)
        IN  /\ n = count_ones(state.subtree_count)
            /\ n = Len(bits)
            /\ \A i \in 1..n :
                  /\ IsPerfect(state.subtrees[n + 1 - i])
                  /\ SubtreeSize(state.subtrees[n + 1 - i]) = shl1(bits[i])
            /\ \A k \in 1..(n - 1) :
                  SubtreeSize(state.subtrees[k]) > SubtreeSize(state.subtrees[k + 1])

\* Six hashes were pushed and merge_parent has returned its last parent
\* node: the stack holds a subtree of four under a subtree of two, for the
\* bits 2 and 1 of the counter.
StackMirrorsCounterWitness ==
    /\ MergesDone
    /\ LastOp = "merge_parent"
    /\ state.subtree_count = 6
    /\ Len(state.subtrees) = 2
    /\ SubtreeSize(state.subtrees[1]) = 4
    /\ SubtreeSize(state.subtrees[2]) = 2

\* The number of merge_finish calls the loop of finish makes from self
\* until one of them returns the root (a call that aborts ends the count).
RECURSIVE merge_finish_calls(_, _)
merge_finish_calls(self, finalization) ==
    LET r == merge_finish(self, finalization)
    IN  IF r.panic THEN 0
        ELSE IF r.root # <<>> THEN 1
        ELSE 1 + merge_finish_calls(r.state, finalization)

\* C19: from a stack of s >= 2 hashes, a call of merge_finish does one
\* merge; with s > 2 it is an interior merge, the stack shrinks by one and
\* no root is returned, with s = 2 the root is returned and the stack is
\* left empty.  The loop therefore makes s - 1 calls, and finish returns
\* the root with the stack empty.
FinishLoopLength ==
    [][(call.fn = "State" /\ Len(state.subtrees) >= 2 /\ IsFinishCall) =>
          LET s == Len(state.subtrees)
              ev == events'[Len(events')]
          IN  /\ pc' # "panicked"
              /\ merge_finish_calls(state, Root(total_len)) = s - 1
              /\ state'.subtree_count = state.subtree_count
              /\ (ev.op = "merge_finish" /\ s > 2) =>
                    /\ ev.parent # <<>> /\ ev.root = <<>>
                    /\ Len(state'.subtrees) = s - 1
                    /\ top(state'.subtrees) =
                          parent_hash(ev.parent[1][1], ev.parent[1][2], NotRoot)
                    /\ pc' = "finishing"
              /\ (ev.op = "merge_finish" /\ s = 2) =>
                    /\ ev.parent # <<>>
                    /\ ev.root =
                          <<parent_hash(ev.parent[1][1], ev.parent[1][2], Root(total_len))>>
                    /\ state'.subtrees = <<>>
                    /\ pc' = "returned"
              /\ ev.op = "finish" =>
                    /\ ev.root # <<>> /\ result' = ev.root
                    /\ state'.subtrees = <<>>
                    /\ pc' = "returned"]_vars

\* Eight hashes were pushed, which leaves four on the stack, and the loop
\* ended with its third merge_finish call: the first two returned no root.
FinishLoopLengthWitness ==
    /\ call.fn = "State" /\ pc = "returned"
    /\ state.subtree_count = 8 /\ state.subtrees = <<>>
    /\ Len(events) = 11
    /\ events[8].op = "push_subtree"
    /\ events[9].op = "merge_finish" /\ events[9].root = <<>>
    /\ events[10].op = "merge_finish" /\ events[10].root = <<>>
    /\ events[11].op = "merge_finish" /\ events[11].root = result
    /\ result # <<>>

\* The part of the input under a hash: offsets InputLo(h) .. InputHi(h) - 1.
\* A pushed hash absorbed the bytes of its chunk, and the byte at offset i
\* has value i + 1.
RECURSIVE InputLo(_)
InputLo(h) ==
    IF IsParentHash(h) THEN InputLo(LeftChild(h)) ELSE h.absorbed[1].byte - 1

RECURSIVE InputHi(_)
InputHi(h) ==
    IF IsParentHash(h) THEN InputHi(RightChild(h)) ELSE h.absorbed[Len(h.absorbed)].byte

\* The number of pushed hashes under a parent node <<left, right>>.
NodeSize(node) == SubtreeSize(node[1]) + SubtreeSize(node[2])

\* A step in which merge_parent or merge_finish returns a parent node.
EmitsParentNode ==
    /\ Len(events') = Len(events) + 1
    /\ events'[Len(events')].op \in {"merge_parent", "merge_finish"}
    /\ events'[Len(events')].parent # <<>>

\* C20: a parent node returned by merge_parent or merge_finish is the hash
\* of the older of the two top stack entries followed by the hash of the
\* newer one, the two subtrees lie side by side in the input, the older on
\* the left, and a merge_parent call that follows another one with no push
\* in between returns a node over a strictly larger subtree.
ParentNodesInOrder ==
    [][(call.fn = "State" /\ EmitsParentNode) =>
          LET s == Len(state.subtrees)
              ev == events'[Len(events')]
              node == ev.parent[1]
          IN  /\ s >= 2
              /\ node = <<state.subtrees[s - 1], state.subtrees[s]>>
              /\ InputHi(node[1]) = InputLo(node[2])
              /\ InputLo(node[1]) < InputHi(node[1])
              /\ InputLo(node[2]) < InputHi(node[2])
              /\ (ev.op = "merge_parent" /\ LastOp = "merge_parent") =>
                    NodeSize(node) > NodeSize(events[Len(events)].parent[1])]_vars

\* After the fourth push merge_parent returned two parent nodes: first the
\* node over the third and fourth chunks, then the node over all four.
ParentNodesInOrderWitness ==
    /\ call.fn = "State" /\ pc = "open"
    /\ state.subtree_count = 4
    /\ Len(events) = 6
    /\ events[4].op = "push_subtree"
    /\ events[5].op = "merge_parent" /\ events[6].op = "merge_parent"
    /\ NodeSize(events[5].parent[1]) = 2
    /\ NodeSize(events[6].parent[1]) = 4
    /\ InputLo(events[5].parent[1][1]) = 2 * CHUNK_SIZE
    /\ InputHi(events[6].parent[1][1]) = 2 * CHUNK_SIZE
    /\ InputHi(events[6].parent[1][2]) = 4 * CHUNK_SIZE

\* The hashes that were pushed, in push order, under a hash made by
\* merging (a root included): those that absorbed no hash themselves.
RECURSIVE PushedUnder(_)
PushedUnder(h) ==
    IF h.absorbed # <<>> /\ h.absorbed[1].hash # <<>>
    THEN PushedUnder(h.absorbed[1].hash[1]) \o PushedUnder(h.absorbed[2].hash[1])
    ELSE <<h>>

RECURSIVE PushedIn(_)
PushedIn(subtrees) ==
    IF subtrees = <<>> THEN <<>>
    ELSE PushedUnder(Head(subtrees)) \o PushedIn(Tail(subtrees))

\* What the Writer has pushed into its State so far.
WriterPushed ==
    IF pc = "returned" /\ total_len > CHUNK_SIZE
    THEN PushedUnder(result[1])
    ELSE PushedIn(state.subtrees)

\* C15: the writers keep to what push_subtree asks of its callers.  Every
\* hash the Writer pushes in write is that of CHUNK_SIZE bytes and every job
\* of the RayonWriter gets a buffer of job_size bytes; the one push made in
\* finish is the hash of 1 to CHUNK_SIZE (job_size) bytes; and a full chunk
\* or buffer is handed off only when more input has come, so what the
\* writer holds is never empty once a byte was written.
WritersKeepPushContract ==
    /\ call.fn = "Writer" =>
          LET leaves == WriterPushed
              n == Len(leaves)
          IN  /\ pc # "panicked"
              /\ n = state.subtree_count
              /\ \A i \in 1..n :
                    (i < n \/ pc = "open") => Len(leaves[i].absorbed) = CHUNK_SIZE
              /\ (pc = "returned" /\ total_len > CHUNK_SIZE) =>
                    /\ n >= 2
                    /\ Len(leaves[n].absorbed) \in 1..CHUNK_SIZE
                    /\ (n - 1) * CHUNK_SIZE + Len(leaves[n].absorbed) = total_len
              /\ pc = "open" => n * CHUNK_SIZE + chunk_len = total_len
              /\ total_len > 0 => chunk_len \in 1..CHUNK_SIZE
    /\ call.fn = "RayonWriter" =>
          /\ pc # "panicked"
          /\ \A j \in 1..Len(spawned) :
                /\ Len(spawned[j].full_buf) = job_size
                /\ Offset(spawned[j].full_buf) = (j - 1) * job_size
                /\ spawned[j].channel # <<>> =>
                      spawned[j].channel[1] =
                          Message(hash_recurse(spawned[j].full_buf, NotRoot),
                                  spawned[j].full_buf)
          /\ total_len = Len(spawned) * job_size + Len(current_buf)
          /\ total_len > 0 => Len(current_buf) \in 1..job_size
          /\ pc \in {"await_half", "await_drain"} =>
                (input # <<>> /\ Len(current_buf) = job_size)
          /\ pc = "finish_drain" =>
                frame.last_job_hash = <<hash_recurse(current_buf, NotRoot)>>
          /\ (pc = "returned" /\ total_len > job_size) =>
                state.subtree_count = Len(spawned) + 1

\* A RayonWriter with jobs of two chunks took exactly three jobs' worth of
\* input: two jobs were spawned, the third buffer stayed with the writer,
\* full, and its hash was pushed by finish.
WritersKeepPushContractWitness ==
    /\ call.fn = "RayonWriter" /\ pc = "returned"
    /\ job_size = 2 * CHUNK_SIZE
    /\ total_len = 3 * job_size
    /\ Len(spawned) = 2
    /\ Len(current_buf) = job_size
    /\ state.subtree_count = 3

\* push_subtree of each hash of a sequence, in order.
RECURSIVE PushAll(_, _)
PushAll(self, hashes) ==
    IF hashes = <<>> THEN self
    ELSE PushAll(push_subtree(self, Head(hashes)), Tail(hashes))

\* C16: await_half is called only with an empty pool of free buffers and a
\* queue of max_jobs receivers, so its debug_assert_eq! never fails.  With
\* h = max_jobs / 2, when it returns it has taken the first h + 1 receivers
\* off the queue and pushed the hashes of their jobs in queue order, has
\* put the buffers of the first h of them into the pool, returns the buffer
\* of the job that was in the middle, and the other receivers are left in
\* the order they were in.
AwaitHalfContract ==
    call.fn = "RayonWriter" =>
        /\ pc # "panicked"
        /\ pc = "await_half" =>
              (free_bufs = <<>> /\ Len(receivers) = max_jobs /\ max_jobs >= 1)
        /\ (pc = "await_drain" /\ frame.drain_left = 0) =>
              LET h == max_jobs \div 2
                  entry == frame.entry[1]
                  ended == await_half_end(RayonSelf, frame.halfway)
                  job(i) == spawned[entry.receivers[i]]
              IN  /\ entry.free_bufs = <<>>
                  /\ Len(entry.receivers) = max_jobs
                  /\ ended.self.receivers = SubSeq(entry.receivers, h + 2, max_jobs)
                  /\ ended.self.state =
                        PushAll(entry.state,
                                [i \in 1..(h + 1) |-> hash_recurse(job(i).full_buf, NotRoot)])
                  /\ ended.self.pushed =
                        entry.pushed \o [i \in 1..(h + 1) |-> Offset(job(i).full_buf)]
                  /\ ended.self.free_bufs = [i \in 1..h |-> job(i).full_buf]
                  /\ ended.buf = job(h + 1).full_buf
                  /\ ended.self.allocated = entry.allocated
                  /\ ended.self.current_buf = entry.current_buf

\* A writer with max_jobs = 3 is at the end of its second await_half: the
\* first took two of the three receivers, the queue filled up again, and
\* now the oldest receiver is drained and the middle one is about to go.
AwaitHalfContractWitness ==
    /\ call.fn = "RayonWriter"
    /\ pc = "await_drain" /\ frame.drain_left = 0
    /\ max_jobs = 3
    /\ Len(frame.entry[1].pushed) = 2
    /\ Len(pushed) = 3
    /\ Len(receivers) = 2
    /\ Len(free_bufs) = 1

\* What the thread that called write or finish owns: a step that leaves all
\* of it unchanged is not a step of that thread.
callerVars == <<pc, result, state, total_len, current_buf, free_bufs, receivers,
                input, frame, allocated, pushed>>

\* C17 as stated: once await_half has the result of the middle job, the
\* jobs of the receivers before it have all sent theirs, so that the
\* receives of the drain find a message and do not wait.
EarlierReceivesNeverBlock ==
    (call.fn = "RayonWriter" /\ pc = "await_drain") =>
        \A i \in 1..frame.drain_left : spawned[receivers[i]].channel # <<>>

\* C17, amended: await_half waits first on the middle receiver, then does
\* a blocking recv on each receiver before it, oldest first.  While the
\* job of the receiver it is waiting on has not sent, the calling thread
\* does not move, whatever the other jobs do; the receive returns the
\* message of that job and no other, and nothing panics.
AwaitHalfReceivesBlock ==
    [][(call.fn = "RayonWriter" /\ pc \in {"await_half", "await_drain"}) =>
          /\ pc' # "panicked"
          /\ pc = "await_half" =>
                LET j == receivers[await_half_halfway(receivers) + 1]
                IN  /\ spawned[j].channel = <<>> => UNCHANGED callerVars
                    /\ pc' # pc =>
                          /\ pc' = "await_drain"
                          /\ frame'.halfway = spawned[j].channel
                          /\ spawned'[j].channel = <<>>
                          /\ UNCHANGED <<receivers, pushed, state>>
          /\ (pc = "await_drain" /\ frame.drain_left > 0) =>
                LET j == Head(receivers)
                IN  /\ spawned[j].channel = <<>> => UNCHANGED callerVars
                    /\ pushed' # pushed =>
                          /\ spawned[j].done
                          /\ state' = push_subtree(state, spawned[j].channel[1].hash)
                          /\ pushed' = Append(pushed, Offset(spawned[j].full_buf))
                          /\ receivers' = Tail(receivers)
                          /\ spawned'[j].channel = <<>>]_vars

\* await_half has the result of the middle job and waits in its drain on
\* the oldest receiver, whose job has not sent yet.
AwaitHalfReceivesBlockWitness ==
    /\ call.fn = "RayonWriter"
    /\ pc = "await_drain" /\ frame.drain_left > 0
    /\ frame.halfway # <<>>
    /\ ~spawned[Head(receivers)].done
    /\ spawned[Head(receivers)].channel = <<>>

\* The receivers in the queue, as a set of jobs.
Queued == {receivers[i] : i \in 1..Len(receivers)}

\* The job whose result await_half holds while it drains: the one in the
\* middle of the queue when await_half was called.
HalfwayJob ==
    IF pc = "await_drain" THEN {receivers[frame.drain_left + 1]} ELSE {}

\* Every channel carries at most the one message of its job; a job whose
\* receiver left the queue has sent and its message was taken; of the
\* receivers in the queue only the halfway one was received from, once;
\* the others hold their message from the send until the recv.
ChannelDiscipline ==
    call.fn = "RayonWriter" =>
        /\ Len(spawned) <= MaxSpawned
        /\ \A j \in 1..Len(spawned) :
              /\ Len(spawned[j].channel) <= 1
              /\ j \notin Queued => (spawned[j].done /\ spawned[j].channel = <<>>)
              /\ j \in HalfwayJob =>
                    /\ spawned[j].done /\ spawned[j].channel = <<>>
                    /\ frame.halfway =
                          <<Message(hash_recurse(spawned[j].full_buf, NotRoot),
                                    spawned[j].full_buf)>>
              /\ j \in Queued \ HalfwayJob =>
                    (spawned[j].done <=> spawned[j].channel # <<>>)
        /\ \A a, b \in 1..Len(receivers) : a < b => receivers[a] < receivers[b]

\* A send finds its channel empty, and a recv is on a receiver in the queue
\* whose message has not been taken before.
SendsAndReceives ==
    call.fn = "RayonWriter" =>
        \A j \in 1..Len(spawned) :
            /\ (~spawned[j].done /\ spawned'[j].done) => spawned[j].channel = <<>>
            /\ (spawned[j].channel # <<>> /\ spawned'[j].channel = <<>>) =>
                  (j \in Queued /\ j \notin HalfwayJob)

\* C18: on a pool that runs every job to its end, every call of write and
\* every call of finish on the RayonWriter returns.  Each job sends one
\* result, into a channel that is empty, and the caller waits on a
\* receiver only while it is in the queue and only once.
RayonCallsReturn ==
    /\ []ChannelDiscipline
    /\ [][SendsAndReceives]_vars
    /\ (call.fn = "RayonWriter" /\ pc \in {"await_half", "await_drain", "finish_drain"}) ~>
          (pc \in {"open", "returned"})

\* finish has returned on a writer with max_jobs = 2 that spawned five
\* jobs: write went through await_half, finish drained the queue.
RayonCallsReturnWitness ==
    /\ call.fn = "RayonWriter" /\ pc = "returned"
    /\ max_jobs = 2
    /\ Len(spawned) = 5
    /\ \A j \in 1..Len(spawned) : spawned[j].done /\ spawned[j].channel = <<>>
    /\ receivers = <<>>
    /\ result # <<>>

\* The hash of the i-th chunk of the input pushed so far.
PushedHash(i) ==
    hash_node(Bytes((i - 1) * CHUNK_SIZE, Min(i * CHUNK_SIZE, total_len)), NotRoot)

\* The root the lazy drive gives for the same pushes: pushes only, then
\* finish.
LazyRoot ==
    finish(PushAll(State_new, [i \in 1..state.subtree_count |-> PushedHash(i)]),
           Root(total_len)).root

\* The State as it was after the first k calls of the session.
RECURSIVE Replay(_)
Replay(k) ==
    IF k = 0 THEN State_new
    ELSE LET before == Replay(k - 1)
         IN  CASE events[k].op = "push_subtree" ->
                    push_subtree(before, PushedHash(before.subtree_count + 1))
               [] events[k].op = "merge_parent" -> merge_parent(before).state
               [] events[k].op = "merge_finish" ->
                    merge_finish(before, Root(total_len)).state
               [] OTHER -> finish(before, Root(total_len)).state

\* An eager drive: pushes with merge_parent calls in between, then
\* merge_finish calls, none after the one that returned the root.
EagerDrive ==
    /\ call.fn = "State"
    /\ state.subtree_count >= 2
    /\ \A k \in 1..Len(events) :
          /\ events[k].op \in {"push_subtree", "merge_parent", "merge_finish"}
          /\ events[k].op = "merge_finish" =>
                \A later \in (k + 1)..Len(events) : events[later].op = "merge_finish"
          /\ events[k].root # <<>> => k = Len(events)

\* merge_parent was called until it returned None after every push but the
\* last: no push had a merge left to do.
FullyEager ==
    \A k \in 1..Len(events) :
        events[k].op = "push_subtree" => ~needs_merge(Replay(k - 1))

\* The parent nodes returned so far.
ParentNodesEmitted == Cardinality({k \in 1..Len(events) : events[k].parent # <<>>})

\* merge_parent was called after the push that turned out to be the last.
MergedAfterLastPush ==
    \E k \in 1..(Len(events) - 1) :
        /\ events[k].op = "merge_parent"
        /\ events[k + 1].op = "merge_finish"

\* C21 as stated: with merge_parent called until it returns None after
\* some or all of n >= 2 pushes, the loop of merge_finish comes to the root
\* of the lazy drive, and a fully eager drive has returned n - 1 parent
\* nodes by then.
EagerDriveGivesLazyRoot ==
    EagerDrive =>
        /\ pc # "panicked"
        /\ pc = "returned" =>
              /\ result = LazyRoot
              /\ FullyEager => ParentNodesEmitted = state.subtree_count - 1

\* C21, amended: the same, for drives that leave the merges pending after
\* the last push to merge_finish.  merge_parent called after the last push
\* does no harm unless the number of pushes is a power of two: it then
\* merges the whole stack into one interior hash and merge_finish aborts.
EagerDriveBeforeLastPush ==
    EagerDrive =>
        /\ pc = "panicked" <=>
              /\ LastOp = "merge_finish"
              /\ MergedAfterLastPush
              /\ count_ones(state.subtree_count) = 1
              /\ Len(state.subtrees) = 1
              /\ ~state.subtrees[1].last_node
        /\ ~MergedAfterLastPush => pc # "panicked"
        /\ pc = "returned" =>
              /\ result = LazyRoot
              /\ result = <<hash_recurse(Bytes(0, total_len), Root(total_len))>>
              /\ state.subtrees = <<>>
              /\ ParentNodesEmitted <= state.subtree_count - 1
              /\ FullyEager => ParentNodesEmitted = state.subtree_count - 1

\* Six chunks were pushed with merge_parent called to its end after each
\* push, the last one too; merge_finish returned the root with its first
\* call, the fifth parent node of the drive.
EagerDriveWitness ==
    /\ EagerDrive /\ FullyEager /\ MergedAfterLastPush
    /\ pc = "returned"
    /\ state.subtree_count = 6
    /\ Len(events) = 11
    /\ ParentNodesEmitted = 5
    /\ result = LazyRoot

\* The number of trailing zero bits of n >= 1.
RECURSIVE trailing_zeros(_)
trailing_zeros(n) == IF n % 2 = 1 THEN 0 ELSE 1 + trailing_zeros(n \div 2)

\* The State was driven by pushes only so far.
PushesOnly ==
    /\ call.fn = "State" /\ pc = "open"
    /\ \A k \in 1..Len(events) : events[k].op = "push_subtree"

\* C22: in a drive of pushes only, the push that makes the counter c leaves
\* popcount(c - 1) + 1 hashes on the stack, that is as many merges pending
\* as c has trailing zero bits.  The push first does all the merges the
\* push before it left pending, which brings the stack to the popcount of
\* the counter and not below, then appends the new hash.
PendingMergesAreCarries ==
    [][(PushesOnly /\ IsPushCall) =>
          LET c == state'.subtree_count
              merged == merge_pending(state)
              hash == hash_node(Bytes(total_len, total_len'), NotRoot)
          IN  /\ c = state.subtree_count + 1
              /\ Len(state'.subtrees) = count_ones(c - 1) + 1
              /\ Len(state'.subtrees) - count_ones(c) = trailing_zeros(c)
              /\ Len(state'.subtrees) >= count_ones(c)
              /\ Len(merged.subtrees) = count_ones(state.subtree_count)
              /\ state.subtree_count >= 1 =>
                    Len(state.subtrees) - Len(merged.subtrees) =
                        trailing_zeros(state.subtree_count)
              /\ state'.subtrees = Append(merged.subtrees, hash)]_vars

\* Five chunks were pushed and nothing else was called: the fifth push did
\* the two merges the fourth had left pending and put its hash on top of
\* the subtree of four.
PendingMergesAreCarriesWitness ==
    /\ PushesOnly
    /\ Len(events) = 5
    /\ state.subtree_count = 5
    /\ Len(state.subtrees) = 2
    /\ SubtreeSize(state.subtrees[1]) = 4
    /\ SubtreeSize(state.subtrees[2]) = 1

====
